---- MODULE Spec2Model ----
(***************************************************************************)
(* State-machine model of the AirGradient firmware loop (src/src/main.cpp):*)
(* the cooperative loop() with its two cadences (sample, publish), the     *)
(* blocking MQTT reconnect(), the PM2.5 -> AQI conversion and the text     *)
(* that is rendered and published.                                         *)
(*                                                                         *)
(* Time is the 32-bit millisecond counter millis().  It is kept as a pair  *)
(* of 16-bit limbs <<hi, lo>> so that subtraction is exactly the uint32_t  *)
(* subtraction of the C++ code.  The history variable t is the same clock  *)
(* without wraparound; it is read by no action guard except the horizon.   *)
(***************************************************************************)
EXTENDS Integers, Sequences, FiniteSets, TLC

VARIABLES
    \* build-time configuration (main.cpp:47-53, Settings.h, chip id)
    hasCO2, hasPM, hasSHT, connectWIFI, sendMQTT, mqtt_topic_root, deviceid,
    \* program globals (main.cpp:63-78)
    Temperature, AQI, CO2, Humidity, PM2,
    ln1, ln2, ln3, ln4, ln5, topic_prefix,
    msLAST_METRIC, msLAST_SAMPLE,
    \* position of loop() and collaborators
    pc, now, connected, display, sent,
    \* history variables
    t, horizon, faults, conc, iterAt, sampledAt, prevSampledAt, publishedAt,
    tickFailed, attempts, attemptAt, readOk, snapshot

config == <<hasCO2, hasPM, hasSHT, connectWIFI, sendMQTT, mqtt_topic_root, deviceid>>
readings == <<Temperature, AQI, CO2, Humidity, PM2>>
lines == <<ln1, ln2, ln3, ln4, ln5>>
timers == <<msLAST_METRIC, msLAST_SAMPLE>>
sampleHist == <<sampledAt, prevSampledAt, readOk, snapshot>>
publishHist == <<publishedAt, tickFailed>>
vars == <<config, readings, lines, topic_prefix, timers, pc, now, connected,
          display, sent, t, horizon, faults, conc, iterAt, sampleHist, publishHist, attempts, attemptAt>>

-----------------------------------------------------------------------------
\* Program constants

msSAMPLE_INTERVAL == 2500
msPUBLISH_INTERVAL == 30000
msRECONNECT_DELAY == 5000
TOPIC_BUF == 64

\* Bounds of the model
\* Number of clock quanta a behaviour may let pass after setup().
MaxQuanta == 6
MaxQuantaCadence == 26
\* Number of connect attempts recorded for one call of reconnect().
MaxAttempts == 5
\* Number of 500 ms polls setupWiFi() may spend waiting for the association.
MaxWifiPolls == 44

\* The clock advances in steps of half a sample interval.
Quantum == msSAMPLE_INTERVAL \div 2

-----------------------------------------------------------------------------
\* uint32_t arithmetic on <<hi, lo>> limbs

Limb == 65536

U32Of(n) == <<(n \div Limb) % Limb, n % Limb>>

\* Mutant of U32Sub: the difference does not wrap around
U32SubSaturating(x, y) ==
    IF x[1] > y[1] \/ (x[1] = y[1] /\ x[2] >= y[2])
    THEN LET d == x[2] - y[2]
             b == IF d < 0 THEN 1 ELSE 0
         IN  <<(x[1] - y[1] - b) % Limb, d % Limb>>
    ELSE <<0, 0>>

U32Add(x, n) ==
    LET s == x[2] + (n % Limb)
        h == x[1] + (n \div Limb) + (s \div Limb)
    IN  <<h % Limb, s % Limb>>

U32Sub(x, y) ==
    LET d == x[2] - y[2]
        b == IF d < 0 THEN 1 ELSE 0
    IN  <<(x[1] - y[1] - b) % Limb, d % Limb>>

U32GE(x, y) == x[1] > y[1] \/ (x[1] = y[1] /\ x[2] >= y[2])

-----------------------------------------------------------------------------
\* Arduino String conversions

Digit(d) == SubSeq("0123456789abcdef", d + 1, d + 1)

RECURSIVE NatToStr(_, _)
NatToStr(n, base) ==
    IF n < base THEN Digit(n)
    ELSE NatToStr(n \div base, base) \o Digit(n % base)

\* String(int)
IntToStr(n) == IF n < 0 THEN "-" \o NatToStr(-n, 10) ELSE NatToStr(n, 10)

\* String(unsigned, HEX)
HexToStr(n) == NatToStr(n, 16)

\* String(float): two decimal places.  A float is kept as an integer number
\* of hundredths.
FloatToStr(h) ==
    LET a == IF h < 0 THEN -h ELSE h
        f == a % 100
    IN  (IF h < 0 THEN "-" ELSE "") \o NatToStr(a \div 100, 10) \o "."
        \o (IF f < 10 THEN "0" ELSE "") \o NatToStr(f, 10)

\* (int)float: truncation toward zero
FloatToInt(h) == IF h < 0 THEN -((-h) \div 100) ELSE h \div 100

\* String::toCharArray(buf, bufsize): at most bufsize - 1 characters are copied
toCharArray(s, bufsize) ==
    IF Len(s) > bufsize - 1 THEN SubSeq(s, 1, bufsize - 1) ELSE s

-----------------------------------------------------------------------------
\* AQI conversion.  Concentrations are integers in tenths of ug/m3.

\* round(): half away from zero, of the rational n / d with d > 0
Round(n, d) ==
    IF n >= 0 THEN (2 * n + d) \div (2 * d)
    ELSE -((2 * (-n) + d) \div (2 * d))

\* Mutant of linear: the result is clamped to the band's index range
linearClamped(AQIhigh, AQIlow, Conchigh, Conclow, Concentration) ==
    LET a == Round((Concentration - Conclow) * (AQIhigh - AQIlow)
                       + AQIlow * (Conchigh - Conclow),
                   Conchigh - Conclow)
    IN  IF a > AQIhigh THEN AQIhigh ELSE IF a < AQIlow THEN AQIlow ELSE a

linear(AQIhigh, AQIlow, Conchigh, Conclow, Concentration) ==
    Round((Concentration - Conclow) * (AQIhigh - AQIlow)
              + AQIlow * (Conchigh - Conclow),
          Conchigh - Conclow)

\* c = floor(10 * float(pm25)) / 10, in tenths
Truncate(pm25) == 10 * pm25

pm25toAQI(pm25) ==
    LET c == Truncate(pm25)
    IN  IF c >= 0 /\ c < 121 THEN linear(50, 0, 120, 0, c)
        ELSE IF c >= 121 /\ c < 355 THEN linear(100, 51, 354, 121, c)
        ELSE IF c >= 355 /\ c < 555 THEN linear(150, 101, 554, 355, c)
        ELSE IF c >= 555 /\ c < 1505 THEN linear(200, 151, 1504, 555, c)
        ELSE IF c >= 1505 /\ c < 2505 THEN linear(300, 201, 2504, 1505, c)
        ELSE IF c >= 2505 /\ c < 3505 THEN linear(400, 301, 3504, 2505, c)
        ELSE IF c >= 3505 /\ c < 5005 THEN linear(500, 401, 5004, 3505, c)
        ELSE linear(1000, 501, 10004, 5005, c)

-----------------------------------------------------------------------------
\* Collaborators

\* What a sensor driver hands back.  The drivers return plain numbers: a read
\* that failed is still a number (v), and ok only records, for the history,
\* whether the driver obtained a measurement.
CO2Reads == {[ok |-> TRUE, v |-> 412], [ok |-> FALSE, v |-> -1]}
PMReads == {[ok |-> TRUE, v |-> 8], [ok |-> FALSE, v |-> -1]}
\* result.t in tenths of a degree Celsius, result.rh in percent
SHTReads == {[ok |-> TRUE, tc |-> 215, rh |-> 45], [ok |-> FALSE, tc |-> 0, rh |-> 0]}

\* Settings.h: mqtt_topic_root
TopicRoots == {"airgradient", "home/building-a/floor-2/room-214/sensors/airgradient"}
\* ESP.getChipId()
ChipIds == {10597059}

\* The five metrics, in the order loop() publishes them
Metrics == <<"co2", "aqi", "pm25", "humidity", "temperature">>

\* The fourth line of the sample render is the degree sign followed by F
\* (written as the bytes C3 82 C2 B0 in the source).
degF == "*F"

-----------------------------------------------------------------------------
\* setup()

\* millis() when setup() returns: delay(2000), setupWiFi() (delay(3000), k
\* polls of 500 ms, delay(1000)) when connectWIFI, delay(2000)
SetupMs(wifi, k) == 2000 + (IF wifi THEN 3000 + 500 * k + 1000 ELSE 0) + 2000

\* The display after setup(): the IP address when WiFi was brought up,
\* the device id otherwise
SetupScreen(wifi, id) ==
    IF wifi THEN <<"192.", "168.", "1.", "50", "">>
    ELSE <<"Initializing", "Device:", id, "", "">>

\* Build configurations: <<hasCO2, hasPM, hasSHT, connectWIFI, sendMQTT>>
AllOn == <<TRUE, TRUE, TRUE, TRUE, TRUE>>
Configs ==
    { AllOn,
      <<FALSE, TRUE, TRUE, TRUE, TRUE>>,
      <<TRUE, FALSE, TRUE, TRUE, TRUE>>,
      <<TRUE, TRUE, FALSE, TRUE, TRUE>>,
      <<TRUE, TRUE, TRUE, TRUE, FALSE>>,
      <<TRUE, TRUE, TRUE, FALSE, TRUE>> }

\* The state when setup() has returned and loop() is first entered, for the
\* build configurations cfgs, the topic roots roots and k WiFi polls (k in
\* polls).  quanta bounds the time explored after setup(); flt tells whether
\* the sensor drivers may fail to obtain a measurement.
Boot(cfgs, roots, polls, quanta, flt) ==
    /\ \E c \in cfgs :
          /\ hasCO2 = c[1] /\ hasPM = c[2] /\ hasSHT = c[3]
          /\ connectWIFI = c[4] /\ sendMQTT = c[5]
    /\ mqtt_topic_root \in roots
    /\ \E id \in ChipIds : deviceid = HexToStr(id)
    /\ Temperature = 0 /\ AQI = 0 /\ CO2 = 0 /\ Humidity = 0 /\ PM2 = 0
    /\ ln1 = "" /\ ln2 = "" /\ ln3 = "" /\ ln4 = "" /\ ln5 = ""
    /\ topic_prefix = ""
    /\ msLAST_METRIC = U32Of(0) /\ msLAST_SAMPLE = U32Of(0)
    /\ pc = "top"
    /\ \E k \in polls : t = SetupMs(connectWIFI, k)
    /\ now = U32Of(t)
    /\ horizon = t + quanta * Quantum
    /\ faults = flt
    /\ conc = 0
    /\ iterAt = t
    /\ connected = FALSE
    /\ display = SetupScreen(connectWIFI, deviceid)
    /\ sent = <<>>
    /\ sampledAt = -1 /\ prevSampledAt = -1
    /\ publishedAt = -1 /\ tickFailed = FALSE
    /\ attempts = <<>>
    /\ attemptAt = -1
    /\ readOk = [co2 |-> TRUE, pm |-> TRUE, sht |-> TRUE]
    /\ snapshot = [co2 |-> 0, aqi |-> 0, pm25 |-> 0, humidity |-> 0, temperature |-> 0]

\* Every configuration, with drivers that may fail, shortly before the first
\* publish is due
Init == Boot(Configs, TopicRoots, {MaxWifiPolls - 8, MaxWifiPolls}, MaxQuanta, TRUE)

\* The default build with healthy drivers, over more than a publish interval
InitCadence == Boot({AllOn}, {"airgradient"}, {0, MaxWifiPolls}, MaxQuantaCadence, FALSE)

-----------------------------------------------------------------------------
\* The clock and the link

\* d milliseconds pass
Pass(d) ==
    /\ now' = U32Add(now, d)
    /\ t' = t + d

\* client.connected() turns false: the broker or the network dropped the link.
\* (Within one call of reconnect() the history records at most MaxAttempts
\* attempts.)
LinkLost ==
    /\ connected
    /\ pc = "reconnect" => Len(attempts) < MaxAttempts
    /\ connected' = FALSE
    /\ UNCHANGED <<config, readings, lines, topic_prefix, timers, pc, now,
                   display, sent, t, horizon, faults, conc, iterAt, sampleHist, publishHist, attempts, attemptAt>>

-----------------------------------------------------------------------------
\* loop(), lines 233-240: connection supervision

\* Mutant of Networking: the publishing switch is not consulted
NetworkingWifiOnly == connectWIFI

Networking == connectWIFI /\ sendMQTT

\* if (connectWIFI && sendMQTT) { if (!client.connected()) reconnect(); ...
\* A new iteration begins; the previous one took no measurable time or one
\* clock quantum.
LoopTop ==
    /\ pc = "top"
    /\ \E d \in {0, Quantum} :
          /\ t + d <= horizon
          /\ Pass(d)
    /\ pc' = IF Networking
             THEN (IF ~connected THEN "reconnect" ELSE "client_loop")
             ELSE "sample"
    /\ sent' = <<>>
    /\ iterAt' = t'
    /\ UNCHANGED <<config, readings, lines, topic_prefix, timers, connected,
                   display, horizon, faults, conc, sampleHist, publishHist, attempts, attemptAt>>

\* Mutant of Backoff: the retry does not wait
BackoffSkipped == UNCHANGED <<now, t>>

\* Mutant of Backoff: the retry waits half a sample interval
BackoffShort == Pass(Quantum)

\* delay(5000)
Backoff == Pass(msRECONNECT_DELAY)

\* One turn of reconnect()'s while loop: client.connect(), and delay(5000)
\* when it fails.
ReconnectAttempt ==
    /\ pc = "reconnect"
    /\ ~connected
    /\ \E ok \in BOOLEAN :
          /\ attempts' = Append(attempts, ok)
          /\ attemptAt' = t
          /\ connected' = ok
          /\ IF ok THEN UNCHANGED <<now, t>>
             ELSE /\ Len(attempts) + 1 < MaxAttempts
                  /\ t + msRECONNECT_DELAY <= horizon
                  /\ Backoff
    /\ UNCHANGED <<config, readings, lines, topic_prefix, timers, pc,
                   display, sent, horizon, faults, conc, iterAt, sampleHist, publishHist>>

\* while (!client.connected()) is false: reconnect() returns.
ReconnectReturn ==
    /\ pc = "reconnect"
    /\ connected
    /\ pc' = "client_loop"
    /\ UNCHANGED <<config, readings, lines, topic_prefix, timers, now, connected,
                   display, sent, t, horizon, faults, conc, iterAt, sampleHist, publishHist, attempts, attemptAt>>

\* client.loop(): processing inbound and keepalive traffic takes no
\* measurable time or one clock quantum.
ClientLoop ==
    /\ pc = "client_loop"
    /\ \E d \in {0, Quantum} :
          /\ t + d <= horizon
          /\ Pass(d)
    /\ pc' = "sample"
    /\ attempts' = <<>>
    /\ attemptAt' = -1
    /\ UNCHANGED <<config, readings, lines, topic_prefix, timers, connected,
                   display, sent, horizon, faults, conc, iterAt, sampleHist, publishHist>>

-----------------------------------------------------------------------------
\* loop(), lines 242-282: the sample tick

\* Mutant of SampleDue: the publish interval is compared
SampleDueSlow == U32GE(U32Sub(now, msLAST_SAMPLE), U32Of(msPUBLISH_INTERVAL))

\* Mutant of SampleDue: the interval is not compared
SampleDueAlways == U32GE(U32Sub(now, msLAST_SAMPLE), U32Of(0))

\* millis() - msLAST_SAMPLE >= msSAMPLE_INTERVAL
SampleDue == U32GE(U32Sub(now, msLAST_SAMPLE), U32Of(msSAMPLE_INTERVAL))

\* Mutant of SampleStamp: the schedule advances by the interval
SampleStampFixedRate == U32Add(msLAST_SAMPLE, msSAMPLE_INTERVAL)

\* msLAST_SAMPLE = millis()
SampleStamp == now

\* Temperature = (result.t * 1.8) + 32, in hundredths of a degree
Fahrenheit(tc) == tc * 18 + 3200

Line1(temp) == "TMP: " \o IntToStr(FloatToInt(temp)) \o degF
Line2(hum) == "HMD: " \o IntToStr(hum) \o "%"
Line3(aqi) == "AQI:  " \o IntToStr(aqi)
Line4(pm) == "PM2: " \o IntToStr(pm)
Line5(co2) == "CO2: " \o IntToStr(co2)

\* Mutant of TopicPrefix: the device id is left out
TopicPrefixRootOnly == mqtt_topic_root \o "/"

\* topic_prefix = String(mqtt_topic_root) + "/" + String(deviceid) + "/"
TopicPrefix == mqtt_topic_root \o "/" \o deviceid \o "/"

\* The outcomes a driver can produce in this behaviour
Reads(outcomes) == {r \in outcomes : faults \/ r.ok}

\* The drivers are read after msLAST_SAMPLE is set; reading them takes no
\* measurable time or one clock quantum.
SampleTick ==
    /\ pc = "sample"
    /\ SampleDue
    /\ msLAST_SAMPLE' = SampleStamp
    /\ topic_prefix' = TopicPrefix
    /\ \E c \in Reads(CO2Reads), p \in Reads(PMReads), s \in Reads(SHTReads) :
          /\ CO2' = IF hasCO2 THEN c.v ELSE CO2
          /\ ln5' = IF hasCO2 THEN Line5(CO2') ELSE ""
          /\ PM2' = IF hasPM THEN p.v ELSE PM2
          /\ AQI' = IF hasPM THEN pm25toAQI(PM2') ELSE AQI
          /\ ln3' = IF hasPM THEN Line3(AQI') ELSE ""
          /\ ln4' = IF hasPM THEN Line4(PM2') ELSE ""
          /\ Humidity' = IF hasSHT THEN s.rh ELSE Humidity
          /\ Temperature' = IF hasSHT THEN Fahrenheit(s.tc) ELSE Temperature
          /\ ln1' = IF hasSHT THEN Line1(Temperature') ELSE ""
          /\ ln2' = IF hasSHT THEN Line2(Humidity') ELSE ""
          /\ readOk' = [co2 |-> hasCO2 => c.ok, pm |-> hasPM => p.ok,
                        sht |-> hasSHT => s.ok]
    /\ display' = <<ln1', ln2', ln3', ln4', ln5'>>
    /\ snapshot' = [co2 |-> CO2', aqi |-> AQI', pm25 |-> PM2',
                    humidity |-> Humidity', temperature |-> Temperature']
    /\ prevSampledAt' = sampledAt
    /\ sampledAt' = t
    /\ \E d \in {0, Quantum} :
          /\ t + d <= horizon
          /\ Pass(d)
    /\ pc' = "publish"
    /\ UNCHANGED <<config, msLAST_METRIC, connected, sent, horizon, faults, conc, iterAt,
                   publishHist, attempts, attemptAt>>

SampleSkip ==
    /\ pc = "sample"
    /\ ~SampleDue
    /\ pc' = "publish"
    /\ UNCHANGED <<config, readings, lines, topic_prefix, timers, now, connected,
                   display, sent, t, horizon, faults, conc, iterAt, sampleHist, publishHist, attempts, attemptAt>>

-----------------------------------------------------------------------------
\* loop(), lines 284-317: the publish tick

\* Mutant of PublishDue: the tick waits for more than the interval
PublishDueStrict ==
    Networking /\ U32GE(U32Sub(now, msLAST_METRIC), U32Of(msPUBLISH_INTERVAL + 1))

\* connectWIFI && sendMQTT && millis() - msLAST_METRIC >= msPUBLISH_INTERVAL
PublishDue ==
    /\ Networking
    /\ U32GE(U32Sub(now, msLAST_METRIC), U32Of(msPUBLISH_INTERVAL))

\* Mutant of PublishStamp: the timer is advanced only by a tick whose calls
\* all succeeded
PublishStampOnSuccess(failed) == IF failed THEN msLAST_METRIC ELSE now

\* msLAST_METRIC = millis(), before the first client.publish(); failed tells
\* whether a client.publish() of the tick is going to return false
PublishStamp(failed) == now

\* String(topic_prefix + metric).toCharArray(mqtt_topic, 64)
Topic(metric) == toCharArray(topic_prefix \o metric, TOPIC_BUF)

\* String(value).toCharArray(mqtt_payload, 64)
Payload(text) == toCharArray(text, TOPIC_BUF)

\* The third argument of every client.publish()
Retained == TRUE

\* The metric and payload text of each client.publish() of one tick, in
\* program order
\* Mutant of CO2Calls: the enablement is not tested
CO2CallsAlways == <<[metric |-> "co2", text |-> IntToStr(CO2)]>>

CO2Calls == IF hasCO2 THEN <<[metric |-> "co2", text |-> IntToStr(CO2)]>> ELSE <<>>
\* Mutant of PMCalls: the two readings are exchanged
PMCallsSwapped ==
    IF hasPM THEN <<[metric |-> "aqi", text |-> IntToStr(PM2)],
                    [metric |-> "pm25", text |-> IntToStr(AQI)]>>
    ELSE <<>>

PMCalls ==
    IF hasPM THEN <<[metric |-> "aqi", text |-> IntToStr(AQI)],
                    [metric |-> "pm25", text |-> IntToStr(PM2)]>>
    ELSE <<>>
SHTCalls ==
    IF hasSHT THEN <<[metric |-> "humidity", text |-> IntToStr(Humidity)],
                     [metric |-> "temperature", text |-> FloatToStr(Temperature)]>>
    ELSE <<>>
PublishCalls == CO2Calls \o PMCalls \o SHTCalls

\* What client.publish() may return: false whenever the link is down
PublishResults(n) ==
    {r \in [1..n -> BOOLEAN] : ~connected => \A i \in 1..n : ~r[i]}

\* Mutant of Sent: the tick stops at the first call that returns false
SentStopOnFailure(calls, r) ==
    LET n == IF \A i \in DOMAIN r : r[i] THEN Len(calls)
             ELSE CHOOSE k \in DOMAIN r : ~r[k] /\ \A j \in 1..(k - 1) : r[j]
    IN  [i \in 1..n |->
            [metric |-> calls[i].metric,
             topic |-> toCharArray(topic_prefix \o calls[i].metric, TOPIC_BUF),
             payload |-> toCharArray(calls[i].text, TOPIC_BUF),
             retained |-> TRUE,
             ok |-> r[i],
             up |-> connected,
             due |-> TRUE]]

\* The record of the calls made by one tick, given what each returned.  up
\* and due are history: whether the link was up, and whether 30000 ms of real
\* time had passed since the previous tick (since boot for the first one),
\* when the call was made.
Sent(calls, r) ==
    [i \in 1..Len(calls) |->
        [metric |-> calls[i].metric,
         topic |-> Topic(calls[i].metric),
         payload |-> Payload(calls[i].text),
         retained |-> Retained,
         ok |-> r[i],
         up |-> connected,
         due |-> t - (IF publishedAt < 0 THEN 0 ELSE publishedAt)
                     >= msPUBLISH_INTERVAL]]

PublishTick ==
    /\ pc = "publish"
    /\ PublishDue
    /\ \E r \in PublishResults(Len(PublishCalls)) :
          /\ sent' = Sent(PublishCalls, r)
          /\ tickFailed' = \E i \in DOMAIN r : ~r[i]
          /\ msLAST_METRIC' = PublishStamp(tickFailed')
    /\ publishedAt' = t
    /\ pc' = "top"
    /\ UNCHANGED <<config, readings, lines, topic_prefix, msLAST_SAMPLE, now,
                   connected, display, t, horizon, faults, conc, iterAt, sampleHist,
                   attempts, attemptAt>>

\* Mutant of PublishSkip: the publish check restarts the sample timer
PublishSkipRestartsSample ==
    /\ pc = "publish"
    /\ ~PublishDue
    /\ pc' = "top"
    /\ msLAST_SAMPLE' = now
    /\ UNCHANGED <<config, readings, lines, topic_prefix, msLAST_METRIC, now, connected,
                   display, sent, t, horizon, faults, conc, iterAt, sampleHist, publishHist, attempts, attemptAt>>

PublishSkip ==
    /\ pc = "publish"
    /\ ~PublishDue
    /\ pc' = "top"
    /\ UNCHANGED <<config, readings, lines, topic_prefix, timers, now, connected,
                   display, sent, t, horizon, faults, conc, iterAt, sampleHist, publishHist, attempts, attemptAt>>

-----------------------------------------------------------------------------
Next ==
    \/ LinkLost
    \/ LoopTop
    \/ ReconnectAttempt
    \/ ReconnectReturn
    \/ ClientLoop
    \/ SampleTick
    \/ SampleSkip
    \/ PublishTick
    \/ PublishSkip

Spec == Init /\ [][Next]_vars

SpecCadence == InitCadence /\ [][Next]_vars

-----------------------------------------------------------------------------
\* The PM2.5 block of the sample tick (lines 257-266) on its own, over a range
\* of particulate concentrations

\* Largest concentration handed to the block, in tenths of ug/m3
MaxConc == 10200
\* Tenths below zero handed to the block
MaxNegConc == 30

\* int PM2, int pm25: a value becomes an int by dropping its fraction
ToInt(tenths) ==
    IF tenths >= 0 THEN tenths \div 10 ELSE -((-tenths) \div 10)

InitPM == Boot({AllOn}, {"airgradient"}, {0}, 0, FALSE)

\* The particulate sensor meets a concentration.
Present ==
    /\ pc = "top"
    /\ conc' \in (-MaxNegConc)..MaxConc
    /\ pc' = "pm"
    /\ UNCHANGED <<config, readings, lines, topic_prefix, timers, now, connected,
                   display, sent, t, horizon, faults, iterAt, sampleHist,
                   publishHist, attempts, attemptAt>>

\* PM2 = ag.getPM2_Raw(); AQI = pm25toAQI(PM2); ln3 = ...; ln4 = ...
PMBlock ==
    /\ pc = "pm"
    /\ PM2' = ToInt(conc)
    /\ AQI' = pm25toAQI(PM2')
    /\ ln3' = Line3(AQI')
    /\ ln4' = Line4(PM2')
    /\ pc' = "pm_done"
    /\ UNCHANGED <<config, Temperature, CO2, Humidity, ln1, ln2, ln5,
                   topic_prefix, timers, now, connected, display, sent, t,
                   horizon, faults, conc, iterAt, sampleHist, publishHist, attempts, attemptAt>>

NextPM == Present \/ PMBlock

SpecPM == InitPM /\ [][NextPM]_vars

-----------------------------------------------------------------------------
\* The loop with a scheduler and a broker that make progress

\* Number of clock quanta after setup() in the behaviours with fairness
MaxQuantaLive == 14

InitLive == Boot({AllOn}, {"airgradient"}, {MaxWifiPolls}, MaxQuantaLive, FALSE)

\* client.connect() returns true
ConnectAccepted == ReconnectAttempt /\ connected'

\* while (!client.connected()) keeps running, so an attempt that stays possible
\* is made; the broker accepts one of the attempts it is offered again and
\* again, and an accepted link is still up at one of the loop tests.
SpecLive ==
    /\ InitLive
    /\ [][Next]_vars
    /\ SF_vars(ConnectAccepted)
    /\ SF_vars(ReconnectReturn)

-----------------------------------------------------------------------------
\* The loop around the wraparound of millis(), 2^32 ms after power-up

\* Number of clock quanta after the first state of these behaviours
MaxQuantaWrap == 8

\* The end of an iteration two clock quanta before millis() wraps.  The last
\* sample tick ran in that iteration or one quantum earlier, the last publish
\* tick so long ago that the next one is due shortly after the wrap.  Here t
\* counts from an instant two publish intervals earlier.
InitWrap ==
    /\ hasCO2 = AllOn[1] /\ hasPM = AllOn[2] /\ hasSHT = AllOn[3]
    /\ connectWIFI = AllOn[4] /\ sendMQTT = AllOn[5]
    /\ mqtt_topic_root = "airgradient"
    /\ \E id \in ChipIds : deviceid = HexToStr(id)
    /\ \E c \in CO2Reads, p \in PMReads, s \in SHTReads :
          /\ c.ok /\ p.ok /\ s.ok
          /\ CO2 = c.v /\ PM2 = p.v /\ AQI = pm25toAQI(p.v)
          /\ Humidity = s.rh /\ Temperature = Fahrenheit(s.tc)
    /\ ln1 = Line1(Temperature) /\ ln2 = Line2(Humidity) /\ ln3 = Line3(AQI)
    /\ ln4 = Line4(PM2) /\ ln5 = Line5(CO2)
    /\ topic_prefix = TopicPrefix
    /\ pc = "top"
    /\ t = 2 * msPUBLISH_INTERVAL
    /\ now = <<Limb - 1, Limb - 2 * Quantum>>
    /\ \E a \in {0, Quantum} :
          /\ sampledAt = t - a
          /\ msLAST_SAMPLE = U32Sub(now, U32Of(a))
    /\ prevSampledAt = sampledAt - msSAMPLE_INTERVAL
    /\ \E b \in {msPUBLISH_INTERVAL - 2 * Quantum, msPUBLISH_INTERVAL - 5 * Quantum} :
          /\ publishedAt = t - b
          /\ msLAST_METRIC = U32Sub(now, U32Of(b))
    /\ horizon = t + MaxQuantaWrap * Quantum
    /\ faults = FALSE
    /\ conc = 0
    /\ iterAt = t
    /\ connected \in BOOLEAN
    /\ display = <<ln1, ln2, ln3, ln4, ln5>>
    /\ sent = <<>>
    /\ tickFailed = FALSE
    /\ attempts = <<>>
    /\ attemptAt = -1
    /\ readOk = [co2 |-> TRUE, pm |-> TRUE, sht |-> TRUE]
    /\ snapshot = [co2 |-> CO2, aqi |-> AQI, pm25 |-> PM2,
                   humidity |-> Humidity, temperature |-> Temperature]

SpecWrap == InitWrap /\ [][Next]_vars

-----------------------------------------------------------------------------
\* Properties

\* C1: every client.publish() is made when the publish timer is due (30000 ms
\* of real time since the previous publish tick) and the transport is
\* connected at that moment.
C1_PublishOnlyDueAndConnected ==
    \A i \in DOMAIN sent : sent[i].due /\ sent[i].up

\* C2: with a monotonic clock, a sample tick runs only on the single
\* sample check of an iteration and only if at least 2500 ms have passed since
\* the previous sample tick, so two consecutive sample ticks are at least
\* 2500 ms apart.
C2_SampleTicksSpaced ==
    /\ [](prevSampledAt >= 0 => sampledAt - prevSampledAt >= msSAMPLE_INTERVAL)
    /\ [][sampledAt' # sampledAt =>
            /\ pc = "sample" /\ pc' = "publish"
            /\ sampledAt >= 0 => t - sampledAt >= msSAMPLE_INTERVAL]_vars

C2_Witness ==
    /\ prevSampledAt >= 0
    /\ sampledAt - prevSampledAt = msSAMPLE_INTERVAL
    /\ pc = "publish"

\* C3 (as stated): lateness is not carried into the schedule; the second tick
\* after a tick at t0 is due at t0 + 2 * 2500 ms.
C3_NoDrift ==
    (pc = "sample" /\ prevSampledAt >= 0
        /\ t - prevSampledAt >= 2 * msSAMPLE_INTERVAL) => SampleDue

\* C3 (amended): every sample tick re-bases the schedule on the instant it
\* fired (msLAST_SAMPLE is that instant), so the next tick is due exactly when
\* 2500 ms have passed since the previous tick fired, however late that one
\* was.
C3_DueSinceLastFiring ==
    /\ sampledAt >= 0 => msLAST_SAMPLE = U32Of(sampledAt)
    /\ (pc = "sample" /\ sampledAt >= 0) =>
          (SampleDue <=> t - sampledAt >= msSAMPLE_INTERVAL)

\* A tick fired late, and the instant two intervals after its predecessor
\* has come without the next tick being due.
C3_Witness ==
    /\ pc = "sample"
    /\ prevSampledAt >= 0
    /\ sampledAt - prevSampledAt > msSAMPLE_INTERVAL
    /\ t - prevSampledAt >= 2 * msSAMPLE_INTERVAL
    /\ ~SampleDue

Failures(hist) == Cardinality({i \in DOMAIN hist : ~hist[i]})

\* C4: inside reconnect() every failed connect has been followed by one
\* 5000 ms wait and nothing has been published; when connect() fails three times
\* and then succeeds, reconnect() is about to return after exactly four
\* attempts and 3 * 5000 ms.
C4_ThreeBackoffsNoPublish ==
    pc = "reconnect" =>
        /\ t - iterAt = Failures(attempts) * msRECONNECT_DELAY
        /\ sent = <<>>
        /\ publishedAt <= iterAt
        /\ (connected /\ attempts = <<FALSE, FALSE, FALSE, TRUE>>) =>
              /\ Len(attempts) = 4
              /\ t - iterAt = 15000

\* reconnect() is about to return after three failures and a success, and the
\* publish timer has elapsed meanwhile.
C4_Witness ==
    /\ pc = "reconnect"
    /\ connected
    /\ attempts = <<FALSE, FALSE, FALSE, TRUE>>
    /\ PublishDue
    /\ ~U32GE(U32Sub(U32Of(iterAt), msLAST_METRIC), U32Of(msPUBLISH_INTERVAL))

\* The decimal text of the value the last sample tick stored for a metric
SnapshotText(m) ==
    CASE m = "co2" -> IntToStr(snapshot.co2)
      [] m = "aqi" -> IntToStr(snapshot.aqi)
      [] m = "pm25" -> IntToStr(snapshot.pm25)
      [] m = "humidity" -> IntToStr(snapshot.humidity)
      [] m = "temperature" -> FloatToStr(snapshot.temperature)

\* C5: a publish tick sends, for every metric, the value the most recent
\* sample tick stored, and the readings are never other than what that
\* sample tick stored (the publish tick reads no sensor and writes no reading).
C5_PublishesLatestSnapshot ==
    /\ \A i \in DOMAIN sent : sent[i].payload = SnapshotText(sent[i].metric)
    /\ readings = <<snapshot.temperature, snapshot.aqi, snapshot.co2,
                    snapshot.humidity, snapshot.pm25>>

\* A publish tick has sent readings that were sampled at an earlier instant.
C5_Witness ==
    /\ sent # <<>>
    /\ \E i \in DOMAIN sent : sent[i].ok
    /\ sampledAt >= 0
    /\ sampledAt < publishedAt

Enabled(m) ==
    CASE m = "co2" -> hasCO2
      [] m \in {"aqi", "pm25"} -> hasPM
      [] m \in {"humidity", "temperature"} -> hasSHT

\* C6: once loop() has rendered, the display lines of a disabled sensor are
\* empty, and no metric of a disabled sensor is ever published.
C6_DisabledSensorSilent ==
    /\ sampledAt >= 0 =>
          /\ ~hasSHT => display[1] = "" /\ display[2] = ""
          /\ ~hasPM => display[3] = "" /\ display[4] = ""
          /\ ~hasCO2 => display[5] = ""
    /\ \A i \in DOMAIN sent : Enabled(sent[i].metric)

\* A build with a disabled sensor has sampled, rendered and published.
C6_Witness ==
    /\ ~hasCO2 \/ ~hasPM \/ ~hasSHT
    /\ sampledAt >= 0
    /\ display # SetupScreen(connectWIFI, deviceid)
    /\ sent # <<>>

\* C7: when the read of an enabled sensor failed in the last sample tick, its
\* display lines are blank and the publish tick sends no value for its
\* metrics.
C7_FailedReadIsAbsent ==
    /\ (hasCO2 /\ ~readOk.co2) =>
          /\ display[5] = ""
          /\ \A i \in DOMAIN sent : sent[i].metric # "co2"
    /\ (hasPM /\ ~readOk.pm) =>
          /\ display[3] = "" /\ display[4] = ""
          /\ \A i \in DOMAIN sent : sent[i].metric \notin {"aqi", "pm25"}
    /\ (hasSHT /\ ~readOk.sht) =>
          /\ display[1] = "" /\ display[2] = ""
          /\ \A i \in DOMAIN sent : sent[i].metric \notin {"humidity", "temperature"}

\* C8: every publish tick sets msLAST_METRIC to the instant it ran, whatever
\* its calls returned, and the publish check is not due again until 30000 ms
\* have passed since that instant.
C8_NoTickRetry ==
    /\ publishedAt >= 0 => msLAST_METRIC = U32Of(publishedAt)
    /\ (pc = "publish" /\ publishedAt >= 0
            /\ t - publishedAt < msPUBLISH_INTERVAL) => ~PublishDue

\* The publish check is due again, 30000 ms after a tick in which a call
\* returned false.
C8_Witness ==
    /\ pc = "publish"
    /\ tickFailed
    /\ publishedAt >= 0
    /\ t - publishedAt >= msPUBLISH_INTERVAL
    /\ PublishDue

MetricsOf(log) == [i \in DOMAIN log |-> log[i].metric]

ExpectedMetrics == SelectSeq(Metrics, Enabled)

\* C9: every publish tick makes exactly one call for each metric of each
\* enabled sensor, in the order co2, aqi, pm25, humidity, temperature,
\* whatever the calls return.
C9_OneCallPerMetric ==
    [][publishedAt' # publishedAt => MetricsOf(sent') = ExpectedMetrics]_vars

\* A tick whose first and third calls failed made all five calls.
C9_Witness ==
    /\ Len(sent) = 5
    /\ ~sent[1].ok /\ sent[2].ok /\ ~sent[3].ok /\ sent[5].ok

\* C10: every call uses the topic <topicRoot>/<deviceId>/<metric>, the
\* decimal text of the current reading as payload, and retained = true.
C10_TopicPayloadRetained ==
    \A i \in DOMAIN sent :
        /\ sent[i].metric \in {"co2", "aqi", "pm25", "humidity", "temperature"}
        /\ sent[i].topic = mqtt_topic_root \o "/" \o deviceid \o "/" \o sent[i].metric
        /\ sent[i].payload = SnapshotText(sent[i].metric)
        /\ sent[i].retained

\* C11: the converter maps the band endpoints of the concentration the sample
\* tick receives to the index endpoints: 0 gives 0, 12.0 gives 50, 12.1 gives
\* 51, 500.4 gives 500 and 1000.4 gives 1000.
C11_BandEndpoints ==
    pc = "pm_done" =>
        /\ conc = 0 => AQI = 0
        /\ conc = 120 => AQI = 50
        /\ conc = 121 => AQI = 51
        /\ conc = 5004 => AQI = 500
        /\ conc = 10004 => AQI = 1000

\* C12: a raw PM2.5 reading of 8.3 obtained in a sample tick is truncated to
\* 8.3 (one decimal place kept), converted by band 1 to AQI 35, stored as the
\* AQI reading and rendered as the display line "AQI:  35".
C12_Reading83 ==
    (pc = "pm_done" /\ conc = 83) =>
        /\ Truncate(PM2) = 83
        /\ AQI = 35
        /\ ln3 = "AQI:  35"

\* C13 (as stated): inside the connection supervisor no two connect attempts
\* are closer than 5000 ms.
C13_AttemptsSpaced ==
    [][(Len(attempts') = Len(attempts) + 1 /\ attempts # <<>>) =>
           attemptAt' - attemptAt >= msRECONNECT_DELAY]_vars

\* C13 (amended): the supervisor never gives up and never busy-spins on a
\* failing broker: a failed attempt is followed by a 5000 ms wait, no attempt
\* follows a failed attempt sooner than 5000 ms, and once reconnect() is
\* entered it eventually returns with the transport connected.
C13_SupervisorPersists ==
    /\ [][(pc = "reconnect" /\ Len(attempts') = Len(attempts) + 1 /\ ~connected') =>
              t' = t + msRECONNECT_DELAY]_vars
    /\ [][(Len(attempts') = Len(attempts) + 1 /\ attempts # <<>>
              /\ ~attempts[Len(attempts)]) =>
              attemptAt' - attemptAt >= msRECONNECT_DELAY]_vars
    /\ [](pc = "reconnect" => attemptAt <= t)
    /\ (pc = "reconnect") ~> (pc = "client_loop" /\ connected)

\* reconnect() has returned connected after two failed attempts.
C13_Witness ==
    /\ pc = "client_loop"
    /\ connected
    /\ attempts = <<FALSE, FALSE, TRUE>>
    /\ t - iterAt = 2 * msRECONNECT_DELAY
    /\ attemptAt = t

\* C14: each timer is written only by its own cadence.  A sample tick changes
\* msLAST_SAMPLE and leaves msLAST_METRIC; a publish tick changes
\* msLAST_METRIC and leaves msLAST_SAMPLE; reconnect() and client.loop()
\* change neither; a check that is not due leaves the timers and the readings
\* unchanged.
C14_TimersOwnCadence ==
    [][/\ sampledAt' # sampledAt =>
              /\ pc = "sample"
              /\ msLAST_SAMPLE' # msLAST_SAMPLE
              /\ msLAST_METRIC' = msLAST_METRIC
       /\ publishedAt' # publishedAt =>
              /\ pc = "publish"
              /\ msLAST_METRIC' # msLAST_METRIC
              /\ msLAST_SAMPLE' = msLAST_SAMPLE
       /\ msLAST_SAMPLE' # msLAST_SAMPLE => sampledAt' = t
       /\ msLAST_METRIC' # msLAST_METRIC => publishedAt' = t
       /\ pc \in {"top", "reconnect", "client_loop"} =>
              UNCHANGED <<timers, readings, snapshot>>
       /\ (sampledAt' = sampledAt /\ publishedAt' = publishedAt) =>
              UNCHANGED <<timers, readings, snapshot>>]_vars

\* A whole iteration has passed with neither cadence due, after both ticks
\* have fired: the timers still hold the times of those ticks.
C14_Witness ==
    /\ pc = "top"
    /\ publishedAt >= 0
    /\ sampledAt > publishedAt
    /\ sampledAt < iterAt
    /\ msLAST_SAMPLE = U32Of(sampledAt)
    /\ msLAST_METRIC = U32Of(publishedAt)
    /\ t = iterAt

\* C15: within one iteration the steps run in the order (1) connection
\* supervision and client.loop(), (2) sample tick if due, (3) publish tick if
\* due.  So an iteration never ends with the publish timer elapsed: when
\* reconnect() returns in an iteration whose publish timer has elapsed, the
\* publish tick runs in that same iteration, after the sample tick.
C15_IterationOrder ==
    /\ [][pc' # pc =>
              <<pc, pc'>> \in {<<"top", "reconnect">>, <<"top", "client_loop">>,
                               <<"top", "sample">>, <<"reconnect", "client_loop">>,
                               <<"client_loop", "sample">>, <<"sample", "publish">>,
                               <<"publish", "top">>}]_vars
    /\ [][(pc = "publish" /\ pc' = "top" /\ Networking
              /\ t - (IF publishedAt < 0 THEN 0 ELSE publishedAt) >= msPUBLISH_INTERVAL) =>
              (publishedAt' = t /\ sent' # <<>> /\ iterAt' = iterAt)]_vars
    /\ []((pc = "top" /\ sampledAt >= 0 /\ Networking) =>
              t - (IF publishedAt < 0 THEN 0 ELSE publishedAt) < msPUBLISH_INTERVAL)

\* reconnect() blocked for a backoff and returned in an iteration whose
\* publish timer had elapsed; the sample tick and then the publish tick ran
\* in that iteration.
C15_Witness ==
    /\ pc = "top"
    /\ sent # <<>>
    /\ iterAt + msRECONNECT_DELAY <= sampledAt
    /\ sampledAt <= publishedAt
    /\ publishedAt = t
    /\ \E i \in DOMAIN sent : sent[i].up

\* C16 (as stated): every truncated concentration >= 350.5 is converted with
\* the last band's interpolation formula.
C16_LastBandFrom3505 ==
    (pc = "pm_done" /\ Truncate(PM2) >= 3505) =>
        AQI = Round((Truncate(PM2) - 5005) * 499 + 501 * 4999, 4999)

\* C16 (amended): the converter always returns a number.  The last band is
\* the catch-all: every truncated concentration >= 500.5, and every negative
\* one, is converted with the last band's formula, extrapolated without
\* clamping; concentrations from 350.5 up to 500.4 are converted by the
\* seventh band.
C16_CatchAllFrom5005 ==
    pc = "pm_done" =>
        LET c == Truncate(PM2)
        IN  /\ AQI \in Int
            /\ (c >= 5005 \/ c < 0) =>
                   AQI = Round((c - 5005) * 499 + 501 * 4999, 4999)
            /\ (c >= 3505 /\ c < 5005) =>
                   AQI = Round((c - 3505) * 99 + 401 * 1499, 1499)
            /\ c > 10004 => AQI > 1000
            /\ c < 0 => AQI < 501

\* A concentration beyond the table has been converted to an index beyond
\* 1000.
C16_Witness ==
    /\ pc = "pm_done"
    /\ PM2 = 1010
    /\ AQI = 1010
    /\ ln3 = "AQI:  1010"

\* C17: no publish tick runs before the first sample tick has completed: at
\* any publish call the topic prefix is set and every enabled reading has
\* been written by at least one sample tick.
C17_SampleBeforePublish ==
    (publishedAt >= 0 \/ sent # <<>>) =>
        /\ sampledAt >= 0
        /\ sent # <<>> => sampledAt <= publishedAt
        /\ topic_prefix = mqtt_topic_root \o "/" \o deviceid \o "/"
        /\ \A i \in DOMAIN sent :
              sent[i].topic = toCharArray(topic_prefix \o sent[i].metric, TOPIC_BUF)
        /\ hasCO2 => ln5 = Line5(CO2)
        /\ hasPM => ln3 = Line3(AQI) /\ ln4 = Line4(PM2)
        /\ hasSHT => ln2 # ""

\* The first publish tick of a behaviour has run, in the iteration in which
\* the first sample tick ran.
C17_Witness ==
    /\ sent # <<>>
    /\ publishedAt >= 0
    /\ prevSampledAt = -1
    /\ sampledAt >= iterAt
    /\ sampledAt <= publishedAt
    /\ topic_prefix # ""

\* C18: the readings a publish tick sends are never older than one sample
\* interval: at any publish call either the sample tick ran in this very
\* iteration (and the age of the readings is time spent in the iteration
\* since the sample check), or less than 2500 ms have passed since the last
\* sample tick.  This includes the iteration in which reconnect() blocked.
C18_PublishedIsFresh ==
    (pc = "publish" \/ sent # <<>>) =>
        /\ sampledAt >= 0
        /\ \/ t - sampledAt < msSAMPLE_INTERVAL
           \/ sampledAt >= iterAt
        /\ t - sampledAt < msSAMPLE_INTERVAL + (t - iterAt)

\* A publish tick has run right after reconnect() blocked for three
\* backoffs, with readings sampled after the block.
C18_Witness ==
    /\ sent # <<>>
    /\ publishedAt = t
    /\ prevSampledAt >= 0
    /\ iterAt - prevSampledAt < msSAMPLE_INTERVAL
    /\ sampledAt >= iterAt + 3 * msRECONNECT_DELAY
    /\ publishedAt - sampledAt < msSAMPLE_INTERVAL

\* C19: the cadence checks stay correct across the wraparound of millis().
\* At the sample check the tick is due exactly when 2500 ms of real time have
\* passed since the last sample tick, and at the publish check exactly when
\* 30000 ms have passed since the last publish tick, whether or not the
\* counter wrapped in between: neither earlier nor stalled.
C19_CadenceAcrossWrap ==
    /\ pc = "sample" =>
          (SampleDue <=> t - sampledAt >= msSAMPLE_INTERVAL)
    /\ pc = "publish" =>
          (PublishDue <=> t - publishedAt >= msPUBLISH_INTERVAL)
    /\ pc = "top" =>
          /\ t - sampledAt < msSAMPLE_INTERVAL
          /\ t - publishedAt < msPUBLISH_INTERVAL

\* After the wrap: a sample tick stamped before the wrap was followed by one
\* 2500 ms later, stamped after it, and the publish tick has fired 30000 ms
\* after its predecessor.
C19_Witness ==
    /\ now[1] = 0
    /\ msLAST_SAMPLE[1] = 0
    /\ msLAST_METRIC[1] = 0
    /\ sent # <<>>
    /\ publishedAt = t
    /\ publishedAt >= 2 * msPUBLISH_INTERVAL + 2 * Quantum
    /\ prevSampledAt < 2 * msPUBLISH_INTERVAL + 2 * Quantum
    /\ sampledAt - prevSampledAt = msSAMPLE_INTERVAL

\* C20: with connectWIFI or sendMQTT off the transport is never asked to
\* connect, to process pending work or to publish, the loop never enters
\* reconnect(), msLAST_METRIC is never changed, and sample ticks with their
\* display renders go on at the 2500 ms cadence.
C20_NetworkingOffIsLocal ==
    ~(connectWIFI /\ sendMQTT) =>
        /\ pc \in {"top", "sample", "publish"}
        /\ ~connected
        /\ attempts = <<>> /\ attemptAt = -1
        /\ sent = <<>> /\ publishedAt = -1
        /\ msLAST_METRIC = U32Of(0)
        /\ t = iterAt \/ sampledAt >= iterAt
        /\ t - iterAt < msRECONNECT_DELAY
        /\ pc = "top" /\ sampledAt >= 0 =>
              /\ t - sampledAt < msSAMPLE_INTERVAL
              /\ display = <<ln1, ln2, ln3, ln4, ln5>>
        /\ prevSampledAt >= 0 => sampledAt - prevSampledAt = msSAMPLE_INTERVAL

\* Publishing is off, more than a publish interval has passed since
\* power-up, and the sample tick has run twice.
C20_Witness ==
    /\ ~sendMQTT
    /\ pc = "top"
    /\ t > msPUBLISH_INTERVAL
    /\ prevSampledAt >= 0
    /\ sampledAt = t
    /\ display = <<ln1, ln2, ln3, ln4, ln5>>

=============================================================================
